---- MODULE Spec2Model ----
(***************************************************************************)
(* Model of the NovaSketch collaboration server (the root server.js, kept  *)
(* as src/unnamed/part_004): the room table, getOrCreateRoom and its load  *)
(* from the store, the websocket connection / message / close handlers,    *)
(* the two room listeners (document update, awareness update), broadcast   *)
(* fan-out and the debounced save.                                         *)
(*                                                                         *)
(* The Yjs document is a grow-only set of update ids: Y.applyUpdate adds   *)
(* the ids it does not hold yet and emits an 'update' event only when it   *)
(* added something; Y.encodeStateAsUpdate returns the whole set.           *)
(* Time is counted in milliseconds and advances in steps of TickMs.        *)
(***************************************************************************)
EXTENDS Integers, FiniteSets, Sequences, TLC

\* ----------------------------------------------------------------- bounds
MaxConns == 2
MaxUpdates == 2
MaxClock == 1
MaxTicks == 2
MaxFrames == 2
MaxTicksDebounce == 5
MaxOps == 2
MaxLogins == 2

\* ------------------------------------------------------ program constants
DebounceMs == 2000

TickMs == DebounceMs \div 2

Rooms == {"roomA", "roomB"}
Conns == 1..MaxConns
\* A document handle (one `new Y.Doc()` with its roomState) is named after
\* the connection whose getOrCreateRoom call created it.
Handles == Conns
NoHandle == 0
NoConn == 0
Updates == 1..MaxUpdates
Times == {t * TickMs : t \in 0..MaxTicks}
NoTimer == -1

\* What Room.findById can find: no record, a record whose data is empty, a
\* record whose bytes Y.applyUpdate rejects, a record holding an encoded state.
Absent == [kind |-> "absent", data |-> {}]
ZeroLen == [kind |-> "zerolen", data |-> {}]
Corrupt == [kind |-> "corrupt", data |-> {}]
Encoded(d) == [kind |-> "doc", data |-> d]
StoreVals == {Absent, ZeroLen, Corrupt, Encoded({1})}

\* Awareness: client ids, states.  ServerId is the clientID of the room's
\* own Y.Doc, whose empty local state the Awareness constructor publishes.
ServerId == 0
\* The two client documents of the convergence tests and the map keys they set.
Replicas == {"doc1", "doc2"}
Keys == {"shared-shape", "rect-1"}
AwIds == {1}
AwAll == {ServerId} \cup AwIds
Null == "null"
NotPresent == "notpresent"
NoMeta == -1
AwValues == {"cursor"}

\* ------------------------------------------------------------- JS values
\* A JSON value as validatePropertyUpdate sees it: its typeof tag, its text
\* when a string, its number when a number.
Undefined == [t |-> "undefined", s |-> "", n |-> 0]
JsNull == [t |-> "null", s |-> "", n |-> 0]
Str(s) == [t |-> "string", s |-> s, n |-> 0]
Num(n) == [t |-> "number", s |-> "", n |-> n]

\* `properties`: missing, null, a string, or an object with its fields.
Props(t, width, height, rotation, scaleX, scaleY) ==
  [t |-> t, width |-> width, height |-> height, rotation |-> rotation,
   scaleX |-> scaleX, scaleY |-> scaleY]
NoProps(t) == Props(t, Undefined, Undefined, Undefined, Undefined, Undefined)

\* The payload: undefined, null, or an object with objectId, type, properties.
Payload(t, objectId, type, properties) ==
  [t |-> t, objectId |-> objectId, type |-> type, properties |-> properties]
UndefinedPayload == Payload("undefined", Undefined, Undefined, NoProps("undefined"))
NullPayload == Payload("null", Undefined, Undefined, NoProps("undefined"))

NoResult == [valid |-> FALSE, error |-> "not called"]

\* ------------------------------------------------------- accounts: values
\* googleAuth calls in progress at once.
Logins == 1..MaxLogins

\* Google account ids (the `sub` of a verified ticket).
GoogleIds == {"google_123", "google_456"}

\* req.body.idToken: missing, rejected by verifyIdToken, or a valid ticket.
IdToken(present, valid, sub) == [present |-> present, valid |-> valid, sub |-> sub]
NoIdToken == IdToken(FALSE, FALSE, "none")
IdTokens ==
  {NoIdToken, IdToken(TRUE, FALSE, "none")}
    \cup {IdToken(TRUE, TRUE, g) : g \in GoogleIds}

\* A User document; `null` is NoUser.
User(id, googleId) == [id |-> id, googleId |-> googleId]
NoUserId == 0
NoUser == User(NoUserId, "none")
UserIds == 1..MaxLogins

\* process.env.JWT_SECRET and a secret that is not it.
JwtSecret == "JWT_SECRET"
Secrets == {JwtSecret, "wrong-secret"}

\* A JSON web token: whether it parses, the secret it was signed with,
\* whether its exp is in the past, and the userId of its payload.
Token(wellFormed, secret, expired, userId) ==
  [wellFormed |-> wellFormed, secret |-> secret, expired |-> expired,
   userId |-> userId]
NoToken == Token(FALSE, "none", FALSE, NoUserId)
Tokens ==
  {Token(w, s, e, u) : w \in BOOLEAN, s \in Secrets, e \in BOOLEAN, u \in UserIds}

\* req.headers.authorization: absent, 'Basic <token>' or 'Bearer <token>'.
Header(scheme, token) == [scheme |-> scheme, token |-> token]
NoHeader == Header("none", NoToken)
Headers ==
  {NoHeader} \cup {Header(sc, t) : sc \in {"Basic", "Bearer"}, t \in Tokens}

\* What a GET /me request led to: the 401 of protect (denied, error), the
\* calls of next(), req.userId, whether getMe ran, and the final status.
Response(denied, error, next, userId, getMe, status) ==
  [denied |-> denied, error |-> error, next |-> next, userId |-> userId,
   getMe |-> getMe, status |-> status]
NoStatus == 0
NoResponse == Response(FALSE, "none", 0, NoUserId, FALSE, NoStatus)

\* A googleAuth call: its position, its idToken, the users its account had
\* when it began, the `user` variable, User.create calls made, and the
\* response (status, token).
Login(pc, idToken, existed, user, creates, status, token) ==
  [pc |-> pc, idToken |-> idToken, existed |-> existed, user |-> user,
   creates |-> creates, status |-> status, token |-> token]
NoLogin == Login("idle", NoIdToken, {}, NoUser, 0, NoStatus, NoToken)

VARIABLES
  connPc,     \* connection handler position: "new", "loading", "joined"
  connRoom,   \* roomId of the connection (req.url)
  connDoc,    \* the roomState the handler's `room` variable is bound to
  sockOpen,   \* ws.readyState = OPEN
  rooms,      \* the rooms Map: roomId -> handle
  doc,        \* per handle: the Y.Doc contents
  clients,    \* per handle: roomState.clients
  listening,  \* per handle: doc.on('update') / awareness.on('update') registered
  awStates,   \* per handle: doc.awareness.states
  awMeta,     \* per handle: doc.awareness.meta (clock)
  awOwner,    \* per handle: the connection an awareness entry came from
  saveTimer,  \* per handle: the saveTimer variable (due time of the handle)
  timers,     \* per handle: pending setTimeout callbacks (due times)
  store,      \* the Room collection: roomId -> data
  writes,     \* findByIdAndUpdate calls in flight
  finds,      \* number of Room.findById calls issued per roomId
  now,        \* clock
  nframes,    \* frames handled so far
  lastTouch,  \* per handle: time of the last saveToDB call
  runStart,   \* per handle: time of the first saveToDB call of the current run
  bursts,     \* per handle: saveToDB calls that came first or more than DebounceMs after the last
  ties,       \* per handle: saveToDB calls that came exactly DebounceMs after the last
  nwrites,    \* per handle: durable writes issued
  lastMut,    \* per handle: time of the last client mutation of the document
  failed,     \* per room: a load or a write was rejected by the store
  ev,         \* the last handler that ran, and the frames it sent
  replicas,   \* client replicas (doc1, doc2): structs integrated and pending
  authored,   \* per replica: the items it wrote itself
  received,   \* per replica: the items of every update applied to it
  wire,       \* the incremental updates the replicas have emitted
  payload,    \* the argument of a validatePropertyUpdate call
  result,     \* what the call returned
  users,      \* the User collection
  logins,     \* googleAuth calls
  meReq,      \* the Authorization header of the last GET /me request
  meRes,      \* what that request led to
  proc        \* the server process: "starting", "listening" or "exited"

vars == <<connPc, connRoom, connDoc, sockOpen, rooms, doc, clients, listening,
          awStates, awMeta, awOwner, saveTimer, timers, store, writes, finds,
          now, nframes, lastTouch, runStart, bursts, ties, nwrites, lastMut, failed, ev,
          replicas, authored, received, wire, payload, result, users, logins, meReq, meRes, proc>>

repVars == <<replicas, authored, received, wire>>
valVars == <<payload, result>>
authVars == <<users, logins, meReq, meRes>>
procVars == <<proc>>
connVars == <<connPc, connRoom, connDoc, sockOpen>>
awVars == <<awStates, awMeta, awOwner>>
saveVars == <<saveTimer, timers, lastTouch, runStart, bursts, ties>>

\* ------------------------------------------------------------- frames sent
\* A frame the server sends: type 0 (Sync: step1, step2 or update) or type 1
\* (Awareness); ord is its position among the frames one handler sends to
\* the same connection.
Frame(to, ord, type, kind, origin, upd, aw) ==
  [to |-> to, ord |-> ord, type |-> type, kind |-> kind, origin |-> origin,
   upd |-> upd, aw |-> aw]

\* What a handler read: the record findById found, or the awareness entry of
\* an inbound frame (k, clock, st) with the clock known for k before it.
NoBody == [payload |-> UndefinedPayload, upd |-> 0]
Note(found, k, clock, st, prev) ==
  [found |-> found, k |-> k, clock |-> clock, st |-> st, prev |-> prev,
   type |-> -1, body |-> NoBody, at |-> "none"]
NoNote == Note("none", -1, -1, "none", -1)

Ev(kind, c, r, h, sent, touched) ==
  [kind |-> kind, conn |-> c, room |-> r, h |-> h, sent |-> sent,
   touched |-> touched, note |-> NoNote]

\* rooms.has(roomId), had the roomState been put into the table only after the
\* load (rooms.set after the await).
RoomsHasAfterLoad(r) == rooms[r] # NoHandle /\ listening[rooms[r]]

\* rooms.has(roomId)
RoomsHas(r) == rooms[r] # NoHandle

\* The roomId a handle's listeners and saveToDB closure were created for.
HandleRoom(h) == connRoom[h]

\* A fan-out over every socket of the server (wss.clients) instead of the
\* room's clients.
RecipientsAll(r) == {c \in Conns : sockOpen[c]}

\* broadcastToRoom(roomId, message): every client of rooms.get(roomId) whose
\* socket is OPEN.
Recipients(r) ==
  IF rooms[r] = NoHandle THEN {} ELSE {c \in clients[rooms[r]] : sockOpen[c]}

BroadcastToRoom(r, type, kind, origin, upd, aw) ==
  {Frame(c, 1, type, kind, origin, upd, aw) : c \in Recipients(r)}

\* ws.send(message): delivered only on an OPEN socket.
WsSend(c, open, ord, type, kind, upd, aw) ==
  IF open THEN {Frame(c, ord, type, kind, NoConn, upd, aw)} ELSE {}

\* encodeAwarenessUpdate(awareness, ids): one entry (id, clock, state) per id.
EncodeAwareness(states, meta, ids) ==
  {[k |-> k, clock |-> meta[k],
    st |-> IF states[k] = NotPresent THEN Null ELSE states[k]] : k \in ids}

AwarenessSize(states) == Cardinality({k \in AwAll : states[k] # NotPresent})

\* ------------------------------------------------------------------- Init
\* new awarenessProtocol.Awareness(doc): the constructor sets the server's own
\* local state to {} (clock 0); no other client is known.
NewAwStates == [k \in AwAll |-> IF k = ServerId THEN "empty" ELSE NotPresent]
NewAwMeta == [k \in AwAll |-> IF k = ServerId THEN 0 ELSE NoMeta]

\* new Y.Doc(): no struct integrated, none pending.
NewDoc == [items |-> {}, pending |-> {}]

InitState ==
  /\ connPc = [c \in Conns |-> "new"]
  /\ connRoom = [c \in Conns |-> "none"]
  /\ connDoc = [c \in Conns |-> NoHandle]
  /\ sockOpen = [c \in Conns |-> FALSE]
  /\ rooms = [r \in Rooms |-> NoHandle]
  /\ doc = [h \in Handles |-> {}]
  /\ clients = [h \in Handles |-> {}]
  /\ listening = [h \in Handles |-> FALSE]
  /\ awStates = [h \in Handles |-> NewAwStates]
  /\ awMeta = [h \in Handles |-> NewAwMeta]
  /\ awOwner = [h \in Handles |-> [k \in AwAll |-> NoConn]]
  /\ saveTimer = [h \in Handles |-> NoTimer]
  /\ timers = [h \in Handles |-> {}]
  /\ \E v \in StoreVals : store = [r \in Rooms |-> v]
  /\ writes = {}
  /\ finds = [r \in Rooms |-> 0]
  /\ now = 0
  /\ nframes = 0
  /\ lastTouch = [h \in Handles |-> NoTimer]
  /\ runStart = [h \in Handles |-> NoTimer]
  /\ bursts = [h \in Handles |-> 0]
  /\ ties = [h \in Handles |-> 0]
  /\ nwrites = [h \in Handles |-> 0]
  /\ lastMut = [h \in Handles |-> NoTimer]
  /\ failed = [r \in Rooms |-> FALSE]
  /\ ev = Ev("init", NoConn, "none", NoHandle, {}, FALSE)
  /\ replicas = [i \in Replicas |-> NewDoc]
  /\ authored = [i \in Replicas |-> {}]
  /\ received = [i \in Replicas |-> {}]
  /\ wire = {}
  /\ result = NoResult
  /\ users = {}
  /\ logins = [l \in Logins |-> NoLogin]
  /\ meReq = NoHeader
  /\ meRes = NoResponse

\* No validatePropertyUpdate call is in progress; connectDB has resolved and
\* the server listens.
Init == InitState /\ payload = UndefinedPayload /\ proc = "listening"

\* ------------------------------------------------------- debounced saving
\* saveToDB() without the clearTimeout: every call leaves its own timer.
SaveToDBNoClear(h) ==
  /\ timers' = [timers EXCEPT ![h] = @ \cup {now + DebounceMs}]
  /\ saveTimer' = [saveTimer EXCEPT ![h] = now + DebounceMs]
  /\ lastTouch' = [lastTouch EXCEPT ![h] = now]
  /\ runStart' = [runStart EXCEPT ![h] =
       IF lastTouch[h] = NoTimer \/ now - lastTouch[h] >= DebounceMs
       THEN now ELSE @]
  /\ bursts' = [bursts EXCEPT ![h] =
       IF lastTouch[h] = NoTimer \/ now - lastTouch[h] > DebounceMs
       THEN @ + 1 ELSE @]
  /\ ties' = [ties EXCEPT ![h] =
       IF lastTouch[h] # NoTimer /\ now - lastTouch[h] = DebounceMs
       THEN @ + 1 ELSE @]

\* saveToDB() as a throttle: a call made while a timer is pending leaves
\* that timer as it is, so a write comes DebounceMs after the first call of
\* a run.
SaveToDBThrottle(h) ==
  /\ timers' = [timers EXCEPT ![h] = IF @ = {} THEN {now + DebounceMs} ELSE @]
  /\ saveTimer' = [saveTimer EXCEPT ![h] = IF timers[h] = {} THEN now + DebounceMs ELSE @]
  /\ lastTouch' = [lastTouch EXCEPT ![h] = now]
  /\ runStart' = [runStart EXCEPT ![h] =
       IF lastTouch[h] = NoTimer \/ now - lastTouch[h] >= DebounceMs
       THEN now ELSE @]
  /\ bursts' = [bursts EXCEPT ![h] =
       IF lastTouch[h] = NoTimer \/ now - lastTouch[h] > DebounceMs
       THEN @ + 1 ELSE @]
  /\ ties' = [ties EXCEPT ![h] =
       IF lastTouch[h] # NoTimer /\ now - lastTouch[h] = DebounceMs
       THEN @ + 1 ELSE @]

\* saveToDB(): clearTimeout(saveTimer) when one is set, then arm a new timer
\* DebounceMs from now.
SaveToDB(h) ==
  /\ timers' = [timers EXCEPT ![h] =
       (IF saveTimer[h] # NoTimer THEN @ \ {saveTimer[h]} ELSE @)
         \cup {now + DebounceMs}]
  /\ saveTimer' = [saveTimer EXCEPT ![h] = now + DebounceMs]
  /\ lastTouch' = [lastTouch EXCEPT ![h] = now]
  /\ runStart' = [runStart EXCEPT ![h] =
       IF lastTouch[h] = NoTimer \/ now - lastTouch[h] >= DebounceMs
       THEN now ELSE @]
  /\ bursts' = [bursts EXCEPT ![h] =
       IF lastTouch[h] = NoTimer \/ now - lastTouch[h] > DebounceMs
       THEN @ + 1 ELSE @]
  /\ ties' = [ties EXCEPT ![h] =
       IF lastTouch[h] # NoTimer /\ now - lastTouch[h] = DebounceMs
       THEN @ + 1 ELSE @]

\* doc.on('update', (update, origin) => ...): runs only once registered.
\* Saves, and broadcasts a type-0 update frame when origin is not null.
\* Yields the frames sent.
UpdateListenerSends(h, update, origin) ==
  IF listening[h] /\ origin # NoConn
  THEN BroadcastToRoom(HandleRoom(h), 0, "update", origin, update, {})
  ELSE {}

UpdateListenerSaves(h) ==
  IF listening[h] THEN SaveToDB(h) ELSE UNCHANGED saveVars

\* ----------------------------------------------------------------- engine
\* Y.applyUpdate(doc, update): the document holds what it held and what the
\* update carries.
ApplyUpdate(d, update) == d \cup update

\* ------------------------------------------------------------------- join
\* The join sending the awareness snapshot before SyncStep1.
JoinSendsAwarenessFirst(c, h, open, content) ==
  WsSend(c, open, 2, 0, "step1", content, {})
    \cup (IF AwarenessSize(awStates[h]) > 0
          THEN WsSend(c, open, 1, 1, "awareness", {},
                      EncodeAwareness(awStates[h], awMeta[h],
                                      {k \in AwAll : awStates[h][k] # NotPresent}))
          ELSE {})

\* wss.on('connection') after `await getOrCreateRoom`: add the socket to the
\* room's clients, send SyncStep1, send the awareness snapshot when the
\* awareness map is not empty, register the message and close handlers.
JoinSends(c, h, open, content) ==
  WsSend(c, open, 1, 0, "step1", content, {})
    \cup (IF AwarenessSize(awStates[h]) > 0
          THEN WsSend(c, open, 2, 1, "awareness", {},
                      EncodeAwareness(awStates[h], awMeta[h],
                                      {k \in AwAll : awStates[h][k] # NotPresent}))
          ELSE {})

\* A connection arrives.  getOrCreateRoom returns the roomState at once when
\* the room is in the table; otherwise it creates the document, puts the
\* roomState in the table and awaits Room.findById.
Connect(c, r) ==
  /\ connPc[c] = "new"
  /\ connRoom' = [connRoom EXCEPT ![c] = r]
  /\ sockOpen' = [sockOpen EXCEPT ![c] = TRUE]
  /\ IF RoomsHas(r)
     THEN /\ connDoc' = [connDoc EXCEPT ![c] = rooms[r]]
          /\ connPc' = [connPc EXCEPT ![c] = "joined"]
          /\ clients' = [clients EXCEPT ![rooms[r]] = @ \cup {c}]
          /\ UNCHANGED <<rooms, finds, doc>>
          /\ ev' = Ev("join", c, r, rooms[r], JoinSends(c, rooms[r], TRUE, doc[rooms[r]]), FALSE)
     ELSE /\ connDoc' = [connDoc EXCEPT ![c] = c]
          /\ connPc' = [connPc EXCEPT ![c] = "loading"]
          /\ rooms' = [rooms EXCEPT ![r] = c]
          /\ finds' = [finds EXCEPT ![r] = @ + 1]
          /\ UNCHANGED <<clients, doc>>
          /\ ev' = Ev("create", c, r, c, {}, FALSE)
  /\ UNCHANGED <<repVars, valVars, authVars, procVars, listening, awVars, saveVars, store, writes, now, nframes,
                 nwrites, lastMut, failed>>

\* getOrCreateRoom with doc.on('update') registered before the load: the
\* event of Y.applyUpdate(doc, data), whose origin is undefined and so not
\* null, reaches the listener and is broadcast to the room.
LoadDoneListenerFirst(c) ==
  /\ connPc[c] = "loading"
  /\ LET r == connRoom[c]
         rec == store[r]
         loaded == IF rec.kind = "doc" THEN ApplyUpdate(doc[c], rec.data) ELSE doc[c]
     IN /\ doc' = [doc EXCEPT ![c] = loaded]
        /\ ev' = [Ev("loaded", c, r, c,
                     JoinSends(c, c, sockOpen[c], loaded)
                       \cup (IF loaded # doc[c]
                             THEN BroadcastToRoom(r, 0, "update", NoConn, rec.data, {})
                             ELSE {}),
                     FALSE)
                  EXCEPT !.note = Note(rec.kind, -1, -1, "none", -1)]
  /\ listening' = [listening EXCEPT ![c] = TRUE]
  /\ clients' = [clients EXCEPT ![c] = @ \cup {c}]
  /\ connPc' = [connPc EXCEPT ![c] = "joined"]
  /\ UNCHANGED <<repVars, valVars, authVars, procVars, connRoom, connDoc, sockOpen, rooms, awVars, saveVars, store,
                 writes, finds, now, nframes, nwrites, lastMut, failed>>

\* Room.findById resolves: apply the stored bytes when the record holds any
\* (a throw of Y.applyUpdate is caught and logged), register the listeners,
\* return the roomState; the connection handler then joins.
LoadDone(c) ==
  /\ connPc[c] = "loading"
  /\ LET r == connRoom[c]
         rec == store[r]
         loaded == IF rec.kind = "doc" THEN ApplyUpdate(doc[c], rec.data) ELSE doc[c]
     IN /\ doc' = [doc EXCEPT ![c] = loaded]
        /\ ev' = [Ev("loaded", c, r, c, JoinSends(c, c, sockOpen[c], loaded), FALSE)
                  EXCEPT !.note = Note(rec.kind, -1, -1, "none", -1)]
  /\ listening' = [listening EXCEPT ![c] = TRUE]
  /\ clients' = [clients EXCEPT ![c] = @ \cup {c}]
  /\ connPc' = [connPc EXCEPT ![c] = "joined"]
  /\ UNCHANGED <<repVars, valVars, authVars, procVars, connRoom, connDoc, sockOpen, rooms, awVars, saveVars, store,
                 writes, finds, now, nframes, nwrites, lastMut, failed>>

\* Room.findById rejects (store unreachable): caught and logged, the room
\* starts empty.
LoadFail(c) ==
  /\ connPc[c] = "loading"
  /\ listening' = [listening EXCEPT ![c] = TRUE]
  /\ clients' = [clients EXCEPT ![c] = @ \cup {c}]
  /\ connPc' = [connPc EXCEPT ![c] = "joined"]
  /\ failed' = [failed EXCEPT ![connRoom[c]] = TRUE]
  /\ ev' = Ev("loadfail", c, connRoom[c], c, JoinSends(c, c, sockOpen[c], doc[c]), FALSE)
  /\ UNCHANGED <<repVars, valVars, authVars, procVars, connRoom, connDoc, sockOpen, rooms, doc, awVars, saveVars,
                 store, writes, finds, now, nframes, nwrites, lastMut>>

\* --------------------------------------------------------------- messages
\* Y.applyUpdate(doc, update, origin): the ids the document does not hold,
\* which the 'update' event reports.
NewIn(h, update) == update \ doc[h]

\* A message handler that handles a Sync update only once no durable write
\* is in flight.
SyncUpdateFrameAwaitsWrite(c, u) ==
  /\ writes = {}
  /\ connPc[c] = "joined" /\ sockOpen[c]
  /\ nframes < MaxFrames
  /\ nframes' = nframes + 1
  /\ LET h == connDoc[c]
         new == NewIn(h, {u})
     IN /\ doc' = [doc EXCEPT ![h] = ApplyUpdate(@, {u})]
        /\ IF new # {}
           THEN /\ UpdateListenerSaves(h)
                /\ ev' = Ev("sync", c, connRoom[c], h,
                            UpdateListenerSends(h, new, c), listening[h])
           ELSE /\ UNCHANGED saveVars
                /\ ev' = Ev("sync", c, connRoom[c], h, {}, FALSE)
  /\ lastMut' = [lastMut EXCEPT ![connDoc[c]] =
       IF NewIn(connDoc[c], {u}) # {} THEN now ELSE @]
  /\ UNCHANGED <<repVars, valVars, authVars, procVars, connVars, rooms, clients, listening, awVars, store, writes,
                 finds, now, nwrites, failed>>

\* ws.on('message'), case 0, a Sync update (or SyncStep2) sub-message:
\* readSyncMessage applies it to room.doc with the socket as origin; the
\* document emits 'update' when the update added something.  No reply.
SyncUpdateFrame(c, u) ==
  /\ connPc[c] = "joined" /\ sockOpen[c]
  /\ nframes < MaxFrames
  /\ nframes' = nframes + 1
  /\ LET h == connDoc[c]
         new == NewIn(h, {u})
     IN /\ doc' = [doc EXCEPT ![h] = ApplyUpdate(@, {u})]
        /\ IF new # {}
           THEN /\ UpdateListenerSaves(h)
                /\ ev' = Ev("sync", c, connRoom[c], h,
                            UpdateListenerSends(h, new, c), listening[h])
           ELSE /\ UNCHANGED saveVars
                /\ ev' = Ev("sync", c, connRoom[c], h, {}, FALSE)
  /\ lastMut' = [lastMut EXCEPT ![connDoc[c]] =
       IF NewIn(connDoc[c], {u}) # {} THEN now ELSE @]
  /\ UNCHANGED <<repVars, valVars, authVars, procVars, connVars, rooms, clients, listening, awVars, store, writes,
                 finds, now, nwrites, failed>>

\* A frame arrives on a connection whose handler is still at
\* `await getOrCreateRoom(roomId)`: ws.on("message") is not registered yet,
\* the socket emits 'message' to no listener and the frame is discarded.
FrameBeforeHandler(c) ==
  /\ connPc[c] = "loading" /\ sockOpen[c]
  /\ nframes < MaxFrames
  /\ nframes' = nframes + 1
  /\ ev' = Ev("unheard", c, connRoom[c], connDoc[c], {}, FALSE)
  /\ UNCHANGED <<repVars, valVars, authVars, procVars, connVars, rooms, doc, clients, listening, awVars, saveVars,
                 store, writes, finds, now, nwrites, lastMut, failed>>

\* ws.on('message'), case 0, a SyncStep1 sub-message: readSyncMessage writes
\* a SyncStep2 reply into the encoder, which is sent to the sender alone.
SyncStep1Frame(c) ==
  /\ connPc[c] = "joined" /\ sockOpen[c]
  /\ nframes < MaxFrames
  /\ nframes' = nframes + 1
  /\ ev' = Ev("step1", c, connRoom[c], connDoc[c],
              WsSend(c, TRUE, 1, 0, "step2", doc[connDoc[c]], {}), FALSE)
  /\ UNCHANGED <<repVars, valVars, authVars, procVars, connVars, rooms, doc, clients, listening, awVars, saveVars,
                 store, writes, finds, now, nwrites, lastMut, failed>>

\* applyAwarenessUpdate taking every entry, whatever its clock.
ApplyAwarenessAnyClock(states, meta, k, clock, st) ==
  [states |-> [states EXCEPT ![k] = IF st = Null THEN NotPresent ELSE st],
   meta |-> [meta EXCEPT ![k] = clock],
   changed |-> {k}]

\* applyAwarenessUpdate taking every entry whose clock is not older than the
\* known one.
ApplyAwarenessLax(states, meta, k, clock, st) ==
  LET curr == IF meta[k] = NoMeta THEN 0 ELSE meta[k]
  IN IF curr <= clock
     THEN [states |-> [states EXCEPT ![k] = IF st = Null THEN NotPresent ELSE st],
           meta |-> [meta EXCEPT ![k] = clock],
           changed |-> {k}]
     ELSE [states |-> states, meta |-> meta, changed |-> {}]

\* awarenessProtocol.applyAwarenessUpdate for one entry (k, clock, st): the
\* entry is taken when its clock is newer than the known one, or equal to it
\* when it removes a state that is present.  A removal of the server's own
\* state is answered by a clock one higher instead.  `changed` lists the ids
\* reported as added, updated or removed.
ApplyAwareness(states, meta, k, clock, st) ==
  LET curr == IF meta[k] = NoMeta THEN 0 ELSE meta[k]
      accept == \/ curr < clock
                \/ (curr = clock /\ st = Null /\ states[k] # NotPresent)
      keepLocal == st = Null /\ k = ServerId /\ states[k] # NotPresent
      added == meta[k] = NoMeta /\ st # Null
      removed == meta[k] # NoMeta /\ st = Null
      updated == meta[k] # NoMeta /\ st # Null
  IN IF accept
     THEN [states |-> IF st = Null
                      THEN (IF keepLocal THEN states
                            ELSE [states EXCEPT ![k] = NotPresent])
                      ELSE [states EXCEPT ![k] = st],
           meta |-> [meta EXCEPT ![k] = IF keepLocal THEN clock + 1 ELSE clock],
           changed |-> IF added \/ removed \/ updated THEN {k} ELSE {}]
     ELSE [states |-> states, meta |-> meta, changed |-> {}]

\* An awareness listener that sends the whole table on every update.
AwarenessListenerSendsAll(h, states, meta, changed) ==
  IF listening[h] /\ changed # {}
  THEN BroadcastToRoom(HandleRoom(h), 1, "awareness", NoConn, {},
                       EncodeAwareness(states, meta,
                                       {k \in AwAll : states[k] # NotPresent}))
  ELSE {}

\* doc.awareness.on('update', ...): broadcast the changed entries as a type-1
\* frame to the room.
AwarenessListenerSends(h, states, meta, changed) ==
  IF listening[h] /\ changed # {}
  THEN BroadcastToRoom(HandleRoom(h), 1, "awareness", NoConn, {},
                       EncodeAwareness(states, meta, changed))
  ELSE {}

\* An awareness listener that also calls saveToDB, as the document's update
\* listener does.
AwarenessFrameSaves(c, k, clock, st) ==
  /\ connPc[c] = "joined" /\ sockOpen[c]
  /\ nframes < MaxFrames
  /\ nframes' = nframes + 1
  /\ LET h == connDoc[c]
         res == ApplyAwareness(awStates[h], awMeta[h], k, clock, st)
     IN /\ awStates' = [awStates EXCEPT ![h] = res.states]
        /\ awMeta' = [awMeta EXCEPT ![h] = res.meta]
        /\ awOwner' = [awOwner EXCEPT ![h][k] =
             IF res.states[k] = awStates[h][k] /\ res.meta[k] = awMeta[h][k] THEN @
             ELSE IF res.states[k] = NotPresent THEN NoConn ELSE c]
        /\ ev' = [Ev("awareness", c, connRoom[c], h,
                     AwarenessListenerSends(h, res.states, res.meta, res.changed),
                     FALSE)
                  EXCEPT !.kind = IF res.changed = {} THEN "awareness-noop" ELSE @,
                         !.note = Note("none", k, clock, st, awMeta[h][k])]
  /\ SaveToDB(connDoc[c])
  /\ UNCHANGED <<repVars, valVars, authVars, procVars, connVars, rooms, doc, clients, listening, store,
                 writes, finds, now, nwrites, lastMut, failed>>

\* ws.on('message'), case 1: an awareness update carrying one entry.
AwarenessFrame(c, k, clock, st) ==
  /\ connPc[c] = "joined" /\ sockOpen[c]
  /\ nframes < MaxFrames
  /\ nframes' = nframes + 1
  /\ LET h == connDoc[c]
         res == ApplyAwareness(awStates[h], awMeta[h], k, clock, st)
     IN /\ awStates' = [awStates EXCEPT ![h] = res.states]
        /\ awMeta' = [awMeta EXCEPT ![h] = res.meta]
        /\ awOwner' = [awOwner EXCEPT ![h][k] =
             IF res.states[k] = awStates[h][k] /\ res.meta[k] = awMeta[h][k] THEN @
             ELSE IF res.states[k] = NotPresent THEN NoConn ELSE c]
        /\ ev' = [Ev("awareness", c, connRoom[c], h,
                     AwarenessListenerSends(h, res.states, res.meta, res.changed),
                     FALSE)
                  EXCEPT !.kind = IF res.changed = {} THEN "awareness-noop" ELSE @,
                         !.note = Note("none", k, clock, st, awMeta[h][k])]
  /\ UNCHANGED <<repVars, valVars, authVars, procVars, connVars, rooms, doc, clients, listening, saveVars, store,
                 writes, finds, now, nwrites, lastMut, failed>>

\* switch (messageType) taking every type but Awareness as Sync.
DispatchDefaultSync(messageType) ==
  IF messageType = 1 THEN "awareness" ELSE "sync"

\* switch (messageType): case 0 Sync, case 1 Awareness, no other case and no
\* default.
Dispatch(messageType) ==
  CASE messageType = 0 -> "sync"
    [] messageType = 1 -> "awareness"
    [] OTHER -> "none"

\* Frames of the other types a client may send: 2 (Ephemeral), 3
\* (PropertyUpdate) and a type no protocol version defines.  Their bodies: a
\* JSON payload and the bytes, which read as update `upd` when taken as a
\* Sync update.
OtherTypes == {2, 3, 7}
FrameBodies ==
  {[payload |-> Payload("object", Str("test-id"), Str("resize"),
                        Props("object", Num(200), Undefined, Undefined,
                              Undefined, Undefined)),
    upd |-> 1],
   [payload |-> Payload("object", Str("   "), Str("resize"),
                        Props("object", Num(200), Undefined, Undefined,
                              Undefined, Undefined)),
    upd |-> 2]}

\* ws.on('message') for a well-formed frame of another type: the type is
\* read, the switch selects the case, the handler returns.
TypedFrame(c, messageType, body) ==
  /\ connPc[c] = "joined" /\ sockOpen[c]
  /\ nframes < MaxFrames
  /\ nframes' = nframes + 1
  /\ LET h == connDoc[c]
         case == Dispatch(messageType)
         new == IF case = "sync" THEN NewIn(h, {body.upd}) ELSE {}
     IN /\ doc' = [doc EXCEPT ![h] =
                     IF case = "sync" THEN ApplyUpdate(@, {body.upd}) ELSE @]
        /\ lastMut' = [lastMut EXCEPT ![h] = IF new # {} THEN now ELSE @]
        /\ IF new # {}
           THEN /\ UpdateListenerSaves(h)
                /\ ev' = [Ev("frame", c, connRoom[c], h,
                             UpdateListenerSends(h, new, c), listening[h])
                          EXCEPT !.note.type = messageType, !.note.body = body]
           ELSE /\ UNCHANGED saveVars
                /\ ev' = [Ev("frame", c, connRoom[c], h, {}, FALSE)
                          EXCEPT !.note.type = messageType, !.note.body = body]
  /\ UNCHANGED <<repVars, valVars, authVars, procVars, connVars, rooms, clients, listening, awVars, store,
                 writes, finds, now, nwrites, failed>>

\* A message handler without try/catch: the throw of the decoder is an
\* uncaught exception and ends the process.
MalformedFrameUncaught(c, at) ==
  /\ connPc[c] = "joined" /\ sockOpen[c]
  /\ nframes < MaxFrames
  /\ nframes' = nframes + 1
  /\ proc' = "exited"
  /\ ev' = [Ev("malformed", c, connRoom[c], connDoc[c], {}, FALSE)
            EXCEPT !.note.at = at]
  /\ UNCHANGED <<repVars, valVars, authVars, connVars, rooms, doc, clients, listening, awVars,
                 saveVars, store, writes, finds, now, nwrites, lastMut, failed>>

\* ws.on('message') for a frame that fails to decode before anything is
\* applied: decoding throws at the type tag, inside readSyncMessage, or inside
\* applyAwarenessUpdate before an entry is read.  The throw is caught and
\* logged.
MalformedAt == {"tag", "sync", "awareness"}
MalformedFrame(c, at) ==
  /\ connPc[c] = "joined" /\ sockOpen[c]
  /\ nframes < MaxFrames
  /\ nframes' = nframes + 1
  /\ ev' = [Ev("malformed", c, connRoom[c], connDoc[c], {}, FALSE)
            EXCEPT !.note.at = at]
  /\ UNCHANGED <<repVars, valVars, authVars, procVars, connVars, rooms, doc, clients, listening, awVars,
                 saveVars, store, writes, finds, now, nwrites, lastMut, failed>>

\* ws.on('message') for an Awareness frame that announces more entries than
\* it carries: applyAwarenessUpdate applies the entry (k, clock, st) as it
\* reads it, throws on the next, and so never reaches the emit of 'update'
\* that follows its loop.  The throw is caught and logged.
TruncatedAwarenessFrame(c, k, clock, st) ==
  /\ connPc[c] = "joined" /\ sockOpen[c]
  /\ nframes < MaxFrames
  /\ nframes' = nframes + 1
  /\ LET h == connDoc[c]
         res == ApplyAwareness(awStates[h], awMeta[h], k, clock, st)
     IN /\ awStates' = [awStates EXCEPT ![h] = res.states]
        /\ awMeta' = [awMeta EXCEPT ![h] = res.meta]
        /\ awOwner' = [awOwner EXCEPT ![h][k] =
             IF res.states[k] = awStates[h][k] /\ res.meta[k] = awMeta[h][k] THEN @
             ELSE IF res.states[k] = NotPresent THEN NoConn ELSE c]
        /\ ev' = [Ev("malformed", c, connRoom[c], h, {}, FALSE)
                  EXCEPT !.note = [Note("none", k, clock, st, awMeta[h][k])
                                   EXCEPT !.at = "awareness-entry"]]
  /\ UNCHANGED <<repVars, valVars, authVars, procVars, connVars, rooms, doc, clients, listening, saveVars,
                 store, writes, finds, now, nwrites, lastMut, failed>>

\* A close handler that removes the room from the table when its last member
\* leaves.
CloseEvicts(c) ==
  /\ sockOpen[c]
  /\ sockOpen' = [sockOpen EXCEPT ![c] = FALSE]
  /\ IF connPc[c] = "joined"
     THEN /\ clients' = [clients EXCEPT ![connDoc[c]] = @ \ {c}]
          /\ connPc' = [connPc EXCEPT ![c] = "closed"]
     ELSE UNCHANGED <<clients, connPc>>
  /\ rooms' = [r \in Rooms |->
       IF connPc[c] = "joined" /\ rooms[r] = connDoc[c] /\ clients[connDoc[c]] \ {c} = {}
       THEN NoHandle ELSE rooms[r]]
  /\ ev' = Ev("close", c, connRoom[c], connDoc[c], {}, FALSE)
  /\ UNCHANGED <<repVars, valVars, authVars, procVars, connRoom, connDoc, doc, listening, awVars, saveVars,
                 store, writes, finds, now, nframes, nwrites, lastMut, failed>>

\* The socket closes.  ws.on('close') is registered only after the join: it
\* deletes the socket from room.clients and does nothing else.
Close(c) ==
  /\ sockOpen[c]
  /\ sockOpen' = [sockOpen EXCEPT ![c] = FALSE]
  /\ IF connPc[c] = "joined"
     THEN /\ clients' = [clients EXCEPT ![connDoc[c]] = @ \ {c}]
          /\ connPc' = [connPc EXCEPT ![c] = "closed"]
     ELSE UNCHANGED <<clients, connPc>>
  /\ ev' = Ev("close", c, connRoom[c], connDoc[c], {}, FALSE)
  /\ UNCHANGED <<repVars, valVars, authVars, procVars, connRoom, connDoc, rooms, doc, listening, awVars, saveVars,
                 store, writes, finds, now, nframes, nwrites, lastMut, failed>>

\* ------------------------------------------------------------ persistence
\* The save timer fires: snapshot the document (Y.encodeStateAsUpdate) and
\* issue Room.findByIdAndUpdate(roomId, {data}, {upsert: true}).
TimerFire(h) ==
  /\ \E t \in timers[h] :
       /\ t <= now
       /\ timers' = [timers EXCEPT ![h] = @ \ {t}]
  /\ writes' = writes \cup {[room |-> HandleRoom(h), data |-> doc[h], h |-> h]}
  /\ nwrites' = [nwrites EXCEPT ![h] = @ + 1]
  /\ ev' = Ev("fire", NoConn, HandleRoom(h), h, {}, FALSE)
  /\ UNCHANGED <<repVars, valVars, authVars, procVars, connVars, rooms, doc, clients, listening, awVars, saveTimer,
                 lastTouch, runStart, bursts, ties, store, finds, now, nframes, lastMut, failed>>

\* findByIdAndUpdate without { upsert: true }: a record is overwritten, none
\* is created.
WriteDoneNoUpsert(w) ==
  /\ w \in writes
  /\ writes' = writes \ {w}
  /\ store' = [store EXCEPT ![w.room] = IF @ = Absent THEN @ ELSE Encoded(w.data)]
  /\ ev' = Ev("saved", NoConn, w.room, w.h, {}, FALSE)
  /\ UNCHANGED <<repVars, valVars, authVars, procVars, connVars, rooms, doc, clients, listening, awVars, saveVars,
                 finds, now, nframes, nwrites, lastMut, failed>>

\* The store acknowledges a write: the record is created or overwritten.
WriteDone(w) ==
  /\ w \in writes
  /\ writes' = writes \ {w}
  /\ store' = [store EXCEPT ![w.room] = Encoded(w.data)]
  /\ ev' = Ev("saved", NoConn, w.room, w.h, {}, FALSE)
  /\ UNCHANGED <<repVars, valVars, authVars, procVars, connVars, rooms, doc, clients, listening, awVars, saveVars,
                 finds, now, nframes, nwrites, lastMut, failed>>

\* The timer callback without the try/catch: the rejection of
\* findByIdAndUpdate is unhandled and ends the process, with it every
\* socket, room and timer.
WriteFailUncaught(w) ==
  /\ w \in writes
  /\ writes' = {}
  /\ failed' = [failed EXCEPT ![w.room] = TRUE]
  /\ sockOpen' = [c \in Conns |-> FALSE]
  /\ rooms' = [r \in Rooms |-> NoHandle]
  /\ timers' = [h \in Handles |-> {}]
  /\ ev' = Ev("savefail", NoConn, w.room, w.h, {}, FALSE)
  /\ UNCHANGED <<repVars, valVars, authVars, procVars, connPc, connRoom, connDoc, doc, clients, listening,
                 awVars, saveTimer, lastTouch, runStart, bursts, ties, store, finds, now, nframes,
                 nwrites, lastMut>>

\* The store rejects a write: caught and logged, nothing else.
WriteFail(w) ==
  /\ w \in writes
  /\ writes' = writes \ {w}
  /\ failed' = [failed EXCEPT ![w.room] = TRUE]
  /\ ev' = Ev("savefail", NoConn, w.room, w.h, {}, FALSE)
  /\ UNCHANGED <<repVars, valVars, authVars, procVars, connVars, rooms, doc, clients, listening, awVars, saveVars,
                 store, finds, now, nframes, nwrites, lastMut>>

\* Time passes; a timer that is due fires before time moves on.
TickTo(limit) ==
  /\ now < limit * TickMs
  /\ \A h \in Handles : \A t \in timers[h] : t > now
  /\ now' = now + TickMs
  /\ ev' = Ev("tick", NoConn, "none", NoHandle, {}, FALSE)
  /\ UNCHANGED <<repVars, valVars, authVars, procVars, connVars, rooms, doc, clients, listening, awVars, saveVars,
                 store, writes, finds, nframes, nwrites, lastMut, failed>>

Tick == TickTo(MaxTicks)

Next ==
  \/ \E c \in Conns, r \in Rooms : Connect(c, r)
  \/ \E c \in Conns : LoadDone(c)
  \/ \E c \in Conns : LoadFail(c)
  \/ \E c \in Conns, u \in Updates : SyncUpdateFrame(c, u)
  \/ \E c \in Conns : SyncStep1Frame(c)
  \/ \E c \in Conns : FrameBeforeHandler(c)
  \/ \E c \in Conns, k \in AwIds, clock \in 0..MaxClock, st \in AwValues \cup {Null} :
       AwarenessFrame(c, k, clock, st)
  \/ \E c \in Conns, messageType \in OtherTypes, body \in FrameBodies :
       TypedFrame(c, messageType, body)
  \/ \E c \in Conns, at \in MalformedAt : MalformedFrame(c, at)
  \/ \E c \in Conns, k \in AwIds, clock \in 0..MaxClock, st \in AwValues \cup {Null} :
       TruncatedAwarenessFrame(c, k, clock, st)
  \/ \E c \in Conns : Close(c)
  \/ \E h \in Handles : TimerFire(h)
  \/ \E w \in writes : WriteDone(w)
  \/ \E w \in writes : WriteFail(w)
  \/ Tick

Spec == Init /\ [][Next]_vars

\* ---------------------------------------------------------------- startup
\* `await connectDB()` at module top level: mongoose.connect resolves and the
\* module goes on to create the servers and listen.
ConnectDBDone ==
  /\ proc = "starting"
  /\ proc' = "listening"
  /\ ev' = Ev("connected", NoConn, "none", NoHandle, {}, FALSE)
  /\ UNCHANGED <<repVars, valVars, authVars, connVars, rooms, doc, clients, listening, awVars,
                 saveVars, store, writes, finds, now, nframes, nwrites, lastMut, failed>>

\* mongoose.connect rejects (store unreachable): connectDB logs the error and
\* calls process.exit(1).
ConnectDBFail ==
  /\ proc = "starting"
  /\ proc' = "exited"
  /\ ev' = Ev("exit", NoConn, "none", NoHandle, {}, FALSE)
  /\ UNCHANGED <<repVars, valVars, authVars, connVars, rooms, doc, clients, listening, awVars,
                 saveVars, store, writes, finds, now, nframes, nwrites, lastMut, failed>>

\* The process from its start: the server's handlers run once it listens.
NextStartup ==
  \/ ConnectDBDone
  \/ ConnectDBFail
  \/ \E c \in Conns, r \in Rooms : proc = "listening" /\ Connect(c, r)
  \/ \E c \in Conns : proc = "listening" /\ LoadDone(c)
  \/ \E c \in Conns : proc = "listening" /\ LoadFail(c)
  \/ \E c \in Conns, u \in Updates : proc = "listening" /\ SyncUpdateFrame(c, u)
  \/ \E c \in Conns : proc = "listening" /\ SyncStep1Frame(c)
  \/ \E c \in Conns : proc = "listening" /\ FrameBeforeHandler(c)
  \/ \E c \in Conns, k \in AwIds, clock \in 0..MaxClock, st \in AwValues \cup {Null} :
       proc = "listening" /\ AwarenessFrame(c, k, clock, st)
  \/ \E c \in Conns, messageType \in OtherTypes, body \in FrameBodies :
       proc = "listening" /\ TypedFrame(c, messageType, body)
  \/ \E c \in Conns, at \in MalformedAt : proc = "listening" /\ MalformedFrame(c, at)
  \/ \E c \in Conns, k \in AwIds, clock \in 0..MaxClock, st \in AwValues \cup {Null} :
       proc = "listening" /\ TruncatedAwarenessFrame(c, k, clock, st)
  \/ \E c \in Conns : proc = "listening" /\ Close(c)
  \/ \E h \in Handles : proc = "listening" /\ TimerFire(h)
  \/ \E w \in writes : proc = "listening" /\ WriteDone(w)
  \/ \E w \in writes : proc = "listening" /\ WriteFail(w)
  \/ proc = "listening" /\ Tick

InitStartup == InitState /\ payload = UndefinedPayload /\ proc = "starting"

SpecStartup == InitStartup /\ [][NextStartup]_vars

\* ----------------------------------------------------------------- replicas
serverVars == <<connPc, connRoom, connDoc, sockOpen, rooms, doc, clients,
                listening, awStates, awMeta, awOwner, saveTimer, timers, store,
                writes, finds, now, nframes, lastTouch, runStart, bursts, ties, nwrites,
                lastMut, failed, proc>>

\* doc.clientID of each replica.
ClientID(i) == IF i = "doc1" THEN 1 ELSE 2

\* The id of a struct: (client, clock).  NoId is the origin of a struct
\* written under a key nobody had written yet.
Id(x) == <<x.client, x.clock>>
NoId == <<"none", 0>>

\* A struct a replica writes with shapes.set(key, ...): the `clock`-th of
\* `client`, placed right of `left`, the struct the key resolved to when it
\* was written.
Item(client, clock, key, left) ==
  [client |-> client, clock |-> clock, key |-> key, left |-> left]

\* The state vector: the next clock expected of a client.
StateVector(items, client) == Cardinality({x \in items : x.client = client})

\* Y.encodeStateAsUpdate(doc): every integrated struct.
EncodeStateAsUpdate(d) == d.items

\* shapes.get(key): the structs of a key form a tree under their origins;
\* structs of the same origin are ordered by client id, each followed by the
\* structs placed right of it; the key reads as the last struct in that order.
RECURSIVE Rightmost(_, _, _)
Rightmost(items, key, x) ==
  LET kids == {y \in items : y.key = key /\ y.left = Id(x)}
  IN IF kids = {} THEN x
     ELSE Rightmost(items, key,
            CHOOSE y \in kids : \A z \in kids : ClientID(z.client) <= ClientID(y.client))

Resolve(d, key) ==
  LET roots == {y \in d.items : y.key = key /\ y.left = NoId}
  IN IF roots = {} THEN Item("none", 0, key, NoId)
     ELSE Rightmost(d.items, key,
            CHOOSE y \in roots : \A z \in roots : ClientID(z.client) <= ClientID(y.client))

\* Integration of structs: a struct below the state vector is known already
\* and skipped; a struct is integrated when it is the next of its client and
\* its origin is integrated; any other waits as pending.
RECURSIVE Integrate(_, _)
Integrate(items, cand) ==
  LET fresh == {x \in cand : x.clock >= StateVector(items, x.client)}
      ready == {x \in fresh :
                  /\ x.clock = StateVector(items, x.client)
                  /\ x.left = NoId \/ \E y \in items : Id(y) = x.left}
  IN IF ready = {} THEN [items |-> items, pending |-> fresh]
     ELSE Integrate(items \cup ready, fresh \ ready)

\* Y.applyUpdate replacing the replica's state by what the update carries.
ApplyUpdateReplace(d, update) == [items |-> update, pending |-> {}]

\* Y.applyUpdate(doc, update) on a replica: integrate the update's structs
\* and the pending ones.
ApplyUpdateStructs(d, update) == Integrate(d.items, update \cup d.pending)

\* A replica edits its document: shapes.set(key, value).  The document emits
\* the new struct as an incremental update.
LocalSet(i, key) ==
  /\ Cardinality(authored[i]) < MaxOps
  /\ LET x == Item(i, StateVector(replicas[i].items, i), key,
                   Id(Resolve(replicas[i], key)))
     IN /\ replicas' = [replicas EXCEPT ![i].items = @ \cup {x}]
        /\ authored' = [authored EXCEPT ![i] = @ \cup {x}]
        /\ wire' = wire \cup {{x}}
  /\ ev' = Ev("set", NoConn, "none", NoHandle, {}, FALSE)
  /\ UNCHANGED <<serverVars, valVars, authVars, received>>

\* Y.applyUpdate(doc_i, Y.encodeStateAsUpdate(doc_j)): a full-state exchange.
ExchangeState(i, j) ==
  /\ i # j
  /\ LET update == EncodeStateAsUpdate(replicas[j])
     IN /\ replicas' = [replicas EXCEPT ![i] = ApplyUpdateStructs(@, update)]
        /\ received' = [received EXCEPT ![i] = @ \cup update]
        /\ ev' = Ev(IF update \subseteq received[i] THEN "redelivery" ELSE "exchange",
                    NoConn, "none", NoHandle, {}, FALSE)
  /\ UNCHANGED <<serverVars, valVars, authVars, authored, wire>>

\* An incremental update reaches a replica: in any order, any number of times.
DeliverUpdate(i, update) ==
  /\ update \in wire
  /\ replicas' = [replicas EXCEPT ![i] = ApplyUpdateStructs(@, update)]
  /\ received' = [received EXCEPT ![i] = @ \cup update]
  /\ ev' = Ev(IF update \subseteq received[i] THEN "redelivery" ELSE "deliver",
              NoConn, "none", NoHandle, {}, FALSE)
  /\ UNCHANGED <<serverVars, valVars, authVars, authored, wire>>

NextReplicas ==
  \/ \E i \in Replicas, key \in Keys : LocalSet(i, key)
  \/ \E i, j \in Replicas : ExchangeState(i, j)
  \/ \E i \in Replicas, update \in wire : DeliverUpdate(i, update)

\* Two fresh client documents, no server activity.
InitReplicas == Init /\ store = [r \in Rooms |-> Absent]

SpecReplicas == InitReplicas /\ [][NextReplicas]_vars

\* One room with an empty store whose clients send document updates, watched
\* over a longer time: the debounce timer alone.
InitDebounce == Init /\ store = [r \in Rooms |-> Absent]

NextDebounce ==
  \/ \E c \in Conns : Connect(c, "roomA")
  \/ \E c \in Conns : LoadDone(c)
  \/ \E c \in Conns, u \in Updates : SyncUpdateFrame(c, u)
  \/ \E h \in Handles : TimerFire(h)
  \/ \E w \in writes : WriteDone(w)
  \/ \E w \in writes : WriteFail(w)
  \/ TickTo(MaxTicksDebounce)

SpecDebounce == InitDebounce /\ [][NextDebounce]_vars

\* -------------------------------------------------------------- validation
\* String.prototype.trim on the strings used here.
Trim(s) == IF s \in {"", "   "} THEN "" ELSE s

\* JS truthiness of a value: undefined, null, "" and 0 are falsy.
Truthy(v) ==
  CASE v.t = "undefined" -> FALSE
    [] v.t = "null" -> FALSE
    [] v.t = "string" -> v.s # ""
    [] v.t = "number" -> v.n # 0
    [] OTHER -> TRUE

validTypes == {"resize", "rotate", "update"}
numericFields == <<"width", "height", "rotation", "scaleX", "scaleY">>

Invalid(error) == [valid |-> FALSE, error |-> error]
Valid == [valid |-> TRUE, error |-> "undefined"]

\* The first of numericFields whose value is not undefined and not a number
\* (0 when there is none).
FirstNonNumeric(props) ==
  LET bad == {i \in 1..Len(numericFields) :
                LET v == props[numericFields[i]]
                IN v.t # "undefined" /\ v.t # "number"}
  IN IF bad = {} THEN 0 ELSE CHOOSE i \in bad : \A j \in bad : i <= j

\* validatePropertyUpdate(payload)
validatePropertyUpdate(p) ==
  IF \/ p.t \in {"undefined", "null"}
     \/ p.objectId.t # "string"
     \/ Trim(p.objectId.s) = ""
  THEN Invalid("Missing or invalid objectId")
  ELSE IF Truthy(p.type) /\ ~(p.type.t = "string" /\ p.type.s \in validTypes)
  THEN Invalid("Invalid type")
  ELSE IF p.properties.t \in {"undefined", "null"} \/ p.properties.t # "object"
  THEN Invalid("Missing or invalid properties object")
  ELSE LET props == p.properties IN
    IF FirstNonNumeric(props) # 0
    THEN Invalid("must be a number: " \o numericFields[FirstNonNumeric(props)])
    ELSE IF props.width.t # "undefined" /\ props.width.n <= 0
    THEN Invalid("width must be positive")
    ELSE IF props.height.t # "undefined" /\ props.height.n <= 0
    THEN Invalid("height must be positive")
    ELSE Valid

\* The payloads tried: those of the unit tests and their neighbours.
ObjectIds == {Undefined, Str("shape-123"), Str("   "), Num(123)}
Types == {Undefined, JsNull, Str(""), Str("resize"), Str("rotate"), Str("update"),
          Str("delete")}
Sizes == {Undefined, JsNull, Str("100px"), Num(-50), Num(0), Num(100)}
Factors == {Undefined, Str("2x"), Num(2)}
PropsVals ==
  {NoProps("undefined"), NoProps("null"), NoProps("string")}
    \cup {Props("object", w, h, r, sx, sy) :
            w \in Sizes, h \in Sizes \ {JsNull}, r \in Factors, sx \in Factors,
            sy \in Factors}
Payloads ==
  {UndefinedPayload, NullPayload}
    \cup {Payload("object", o, ty, pr) :
            o \in ObjectIds, ty \in Types, pr \in PropsVals}

\* A caller hands a payload to validatePropertyUpdate.
CallValidate ==
  /\ result = NoResult
  /\ result' = validatePropertyUpdate(payload)
  /\ ev' = Ev("validate", NoConn, "none", NoHandle, {}, FALSE)
  /\ UNCHANGED <<serverVars, repVars, authVars, payload>>

InitValidate ==
  /\ InitState
  /\ proc = "listening"
  /\ store = [r \in Rooms |-> Absent]
  /\ payload \in Payloads

NextValidate == CallValidate

SpecValidate == InitValidate /\ [][NextValidate]_vars

\* ---------------------------------------------------------------- accounts
\* User.findOne({ googleId }): a document of that account, or null.
UserFindOne(us, googleId) ==
  IF \E u \in us : u.googleId = googleId
    THEN CHOOSE u \in us :
           /\ u.googleId = googleId
           /\ \A v \in us : v.googleId = googleId => u.id <= v.id
    ELSE NoUser

\* User.create({ googleId, ... }): the collection keeps googleId unique, so
\* the insert of a second document of an account is rejected.
UserCreate(us, googleId) ==
  IF \E u \in us : u.googleId = googleId
    THEN [ok |-> FALSE, users |-> us, user |-> NoUser]
    ELSE LET new == User(Cardinality(us) + 1, googleId)
         IN [ok |-> TRUE, users |-> us \cup {new}, user |-> new]

\* User.findById(req.userId).
UserFindById(us, id) ==
  IF \E u \in us : u.id = id THEN CHOOSE u \in us : u.id = id ELSE NoUser

\* jwt.sign({ userId: user._id, ... }, JWT_SECRET, { expiresIn: "7d" }).
JwtSign(user) == Token(TRUE, JwtSecret, FALSE, user.id)

\* jwt.verify(token, secret): the payload, or a throw for a token that does
\* not parse, was signed with another secret or has expired.
JwtVerify(token, secret) ==
  [ok |-> token.wellFormed /\ token.secret = secret /\ ~token.expired,
   userId |-> token.userId]

\* if (!user): the find came back empty.
NeedsCreateAlways(user) == TRUE

NeedsCreate(user) == user = NoUser

\* googleAuth up to its first await: 400 without an idToken.
GoogleAuthStart(l, idToken) ==
  /\ logins[l].pc = "idle"
  /\ logins' = [logins EXCEPT ![l] =
       IF ~idToken.present
         THEN Login("done", idToken, {}, NoUser, 0, 400, NoToken)
         ELSE Login("verifyIdToken", idToken,
                    {u \in users : u.googleId = idToken.sub},
                    NoUser, 0, NoStatus, NoToken)]
  /\ UNCHANGED <<serverVars, repVars, valVars, ev, users, meReq, meRes>>

\* client.verifyIdToken settles: a rejection goes to the catch (401), a
\* ticket leads to the User.findOne call.
VerifyIdTokenDone(l) ==
  /\ logins[l].pc = "verifyIdToken"
  /\ logins' = [logins EXCEPT ![l] =
       IF logins[l].idToken.valid
         THEN [@ EXCEPT !.pc = "findOne"]
         ELSE [@ EXCEPT !.pc = "done", !.status = 401]]
  /\ UNCHANGED <<serverVars, repVars, valVars, ev, users, meReq, meRes>>

\* User.findOne settles: an existing user is answered with a token, for
\* none User.create is called.
FindOneDone(l) ==
  /\ logins[l].pc = "findOne"
  /\ LET user == UserFindOne(users, logins[l].idToken.sub)
     IN logins' = [logins EXCEPT ![l] =
          IF NeedsCreate(user)
            THEN [@ EXCEPT !.pc = "create", !.creates = @ + 1]
            ELSE [@ EXCEPT !.pc = "done", !.user = user, !.status = 200,
                           !.token = JwtSign(user)]]
  /\ UNCHANGED <<serverVars, repVars, valVars, ev, users, meReq, meRes>>

\* User.create settles: the new user is answered with a token, a rejection
\* goes to the catch (401).
CreateDone(l) ==
  /\ logins[l].pc = "create"
  /\ LET r == UserCreate(users, logins[l].idToken.sub)
     IN /\ users' = r.users
        /\ logins' = [logins EXCEPT ![l] =
             IF r.ok
               THEN [@ EXCEPT !.pc = "done", !.user = r.user, !.status = 200,
                              !.token = JwtSign(r.user)]
               ELSE [@ EXCEPT !.pc = "done", !.status = 401]]
  /\ UNCHANGED <<serverVars, repVars, valVars, ev, meReq, meRes>>

\* res.status(401).json({ error }) without next().
Deny(error) == Response(TRUE, error, 0, NoUserId, FALSE, 401)

\* protect(req, res, next): 401 unless the Authorization header is
\* 'Bearer <token>' and the token verifies against JWT_SECRET; then
\* req.userId is set from the token and next() is called.
protect(header) ==
  IF header.scheme # "Bearer"
    THEN Deny("No token provided")
    ELSE LET decoded == JwtVerify(header.token, JwtSecret)
         IN IF decoded.ok
              THEN Response(FALSE, "none", 1, decoded.userId, FALSE, NoStatus)
              ELSE Deny("Invalid or expired token")

\* getMe(req, res): the user of req.userId, or 404.
getMe(r, us) ==
  [r EXCEPT !.getMe = TRUE,
            !.status = IF UserFindById(us, r.userId) = NoUser THEN 404 ELSE 200,
            !.error = IF UserFindById(us, r.userId) = NoUser
                        THEN "User not found" ELSE "none"]

\* router.get("/me", getMe): the handler without the middleware.
RouteMeUnprotected(header, us) == getMe(NoResponse, us)

\* router.get("/me", protect, getMe): getMe runs when protect calls next().
RouteMe(header, us) ==
  LET r == protect(header)
  IN IF r.next > 0 THEN getMe(r, us) ELSE r

\* A GET /me request arrives with some Authorization header.
GetMeRequest(header) ==
  /\ meReq' = header
  /\ meRes' = RouteMe(header, users)
  /\ UNCHANGED <<serverVars, repVars, valVars, ev, users, logins>>

NextAuth ==
  \/ \E l \in Logins, idToken \in IdTokens : GoogleAuthStart(l, idToken)
  \/ \E l \in Logins : VerifyIdTokenDone(l)
  \/ \E l \in Logins : FindOneDone(l)
  \/ \E l \in Logins : CreateDone(l)
  \/ \E header \in Headers : GetMeRequest(header)

\* The HTTP routes alone, on an empty User collection.
InitAuth == Init /\ store = [r \in Rooms |-> Absent]

SpecAuth == InitAuth /\ [][NextAuth]_vars

\* ================================================================= claims
FrameKinds == {"sync", "step1", "awareness", "awareness-noop", "frame", "malformed"}

InFlight(h) == {w \in writes : w.h = h}

\* C1 (no-echo): the type-0 update frame broadcast for a mutation that came
\* from connection c is delivered to no connection equal to c.
NoEcho ==
  \A f \in ev.sent : (f.type = 0 /\ f.kind = "update") => f.to # f.origin

\* C2 (room isolation), first half: every frame sent while a frame of room R
\* is handled goes to a member of R, a connection that joined R.
BroadcastInRoom ==
  ev.kind \in FrameKinds =>
    \A f \in ev.sent : /\ connRoom[f.to] = ev.room
                       /\ f.to \in clients[rooms[ev.room]]

\* C2 (room isolation), second half: handling a frame of room R leaves the
\* document, the awareness table and the save timer of every other room's
\* handle as they were.
FrameStaysInRoom ==
  ev'.kind \in FrameKinds =>
    \A h \in Handles :
      HandleRoom(h) # ev'.room =>
        /\ doc'[h] = doc[h]
        /\ awStates'[h] = awStates[h] /\ awMeta'[h] = awMeta[h]
        /\ saveTimer'[h] = saveTimer[h] /\ timers'[h] = timers[h]

\* C2 (room isolation): a broadcast caused by a frame of room R reaches only
\* members of R, and the frame changes no state of another room.
RoomIsolation == []BroadcastInRoom /\ [][FrameStaysInRoom]_vars

\* C2 witness: an update was broadcast in one room while an open connection
\* was joined to the other room.
RoomIsolationWitness ==
  /\ ev.kind = "sync" /\ ev.sent # {}
  /\ \E c \in Conns :
       connPc[c] = "joined" /\ sockOpen[c] /\ connRoom[c] # ev.room

\* C3 (single-flight load): at most one Room.findById is issued per roomId.
SingleFlightLoad == \A r \in Rooms : finds[r] <= 1

\* C3 witness: a second connection for the room arrived and joined while the
\* first connection's load was still awaiting the store.
SingleFlightWitness ==
  \E c1, c2 \in Conns :
    /\ c1 # c2 /\ connRoom[c1] = connRoom[c2]
    /\ connPc[c1] = "loading" /\ connPc[c2] = "joined"
    /\ finds[connRoom[c1]] = 1

\* C4 (one authoritative document per room): at most one document handle is
\* ever created for a roomId, every connection of the room is bound to the
\* handle the table holds, and frames are applied to that handle.
OneDocumentPerRoom ==
  /\ \A r \in Rooms :
       Cardinality({h \in Handles : connDoc[h] = h /\ connRoom[h] = r}) <= 1
  /\ \A c \in Conns : connPc[c] # "new" => connDoc[c] = rooms[connRoom[c]]
  /\ ev.kind \in FrameKinds => ev.h = rooms[ev.room]

\* C4 witness: a connection that did not create the room's document changed
\* it, with the creator joined to the same room.
OneDocumentWitness ==
  /\ ev.kind = "sync" /\ connDoc[ev.conn] # ev.conn /\ lastMut[ev.h] = now
  /\ connPc[ev.h] = "joined" /\ connRoom[ev.h] = ev.room
  /\ doc[ev.h] # {}

\* C5 (eventual durability): once a room is loaded, its last client mutation
\* is at least DebounceMs old, no timer is pending, no write is in flight and
\* the store rejected nothing, the durable record is the document's full state.
EventualDurability ==
  \A r \in Rooms :
    LET h == rooms[r]
    IN (/\ h # NoHandle /\ listening[h]
        /\ lastMut[h] # NoTimer /\ now >= lastMut[h] + DebounceMs
        /\ timers[h] = {} /\ InFlight(h) = {}
        /\ ~failed[r])
       => store[r] = Encoded(doc[h])

\* C6 (debounce coalescing): a handle has at most one timer pending, due
\* DebounceMs after the last saveToDB call; a write is issued exactly then;
\* and the writes issued or pending are one per run of calls, a run being
\* broken by a gap of more than DebounceMs (a gap of exactly DebounceMs may
\* fall either way).
DebounceCoalescing ==
  \A h \in Handles :
    /\ Cardinality(timers[h]) <= 1
    /\ \A t \in timers[h] : t = lastTouch[h] + DebounceMs
    /\ bursts[h] <= nwrites[h] + Cardinality(timers[h])
    /\ nwrites[h] + Cardinality(timers[h]) <= bursts[h] + ties[h]
    /\ (ev.kind = "fire" /\ ev.h = h) => now = lastTouch[h] + DebounceMs

\* C6 witness: two mutation events less than DebounceMs apart were followed
\* by one write, and no timer is left.
DebounceWitness ==
  \E h \in Handles :
    /\ Cardinality(doc[h]) = 2 /\ bursts[h] = 1 /\ ties[h] = 0
    /\ nwrites[h] = 1 /\ timers[h] = {}
    /\ now = lastTouch[h] + DebounceMs /\ lastTouch[h] > 0

\* C7 (self-healing load): when the load finds a record whose bytes the
\* engine rejects, the connection is joined and the record is gone from the
\* store.
SelfHealingLoad ==
  (ev.kind = "loaded" /\ ev.note.found = "corrupt") =>
    /\ connPc[ev.conn] = "joined"
    /\ store[ev.room] = Absent

\* C8 (disconnect cleanup): after a connection's close handler has run, the
\* room's awareness table holds no entry that came from that connection.
DisconnectCleanup ==
  (ev.kind = "close" /\ connPc[ev.conn] = "closed") =>
    \A k \in AwIds : awOwner[ev.h][k] # ev.conn

Convergence ==
  \A a, b \in Replicas :
    (/\ a # b
     /\ authored[b] \subseteq received[a]
     /\ authored[a] \subseteq received[b]) =>
      /\ replicas[a].items = replicas[b].items
      /\ replicas[a].pending = {} /\ replicas[b].pending = {}
      /\ \A key \in Keys : Resolve(replicas[a], key) = Resolve(replicas[b], key)

\* C10 witness: both replicas wrote the same key concurrently (neither had
\* the other's item), each has received the other's items, and the last
\* delivery repeated an earlier one.
ConvergenceWitness ==
  /\ ev.kind = "redelivery"
  /\ \E x \in authored["doc1"], y \in authored["doc2"] :
       x.key = y.key /\ x.left = NoId /\ y.left = NoId
  /\ authored["doc1"] \subseteq received["doc2"]
  /\ authored["doc2"] \subseteq received["doc1"]

\* The five checks as the specification numbers them, on a payload.
Check1(p) == p.t = "object" /\ p.objectId.t = "string" /\ Trim(p.objectId.s) # ""
Check2(p) ==
  p.type.t # "undefined" => (p.type.t = "string" /\ p.type.s \in validTypes)
Check3(p) == p.properties.t = "object"
Check4(p) ==
  \A i \in 1..Len(numericFields) :
    LET v == p.properties[numericFields[i]]
    IN v.t # "undefined" => v.t = "number"
Check5(p) ==
  /\ p.properties.width.t = "number" => p.properties.width.n > 0
  /\ p.properties.height.t = "number" => p.properties.height.n > 0

\* The lowest-numbered check a payload fails (0 when it passes all).
FirstFailing(p) ==
  IF ~Check1(p) THEN 1 ELSE IF ~Check2(p) THEN 2 ELSE IF ~Check3(p) THEN 3
  ELSE IF ~Check4(p) THEN 4 ELSE IF ~Check5(p) THEN 5 ELSE 0

\* The check an error message belongs to.
CheckOfError(error) ==
  CASE error = "Missing or invalid objectId" -> 1
    [] error = "Invalid type" -> 2
    [] error = "Missing or invalid properties object" -> 3
    [] error \in {"width must be positive", "height must be positive"} -> 5
    [] OTHER -> 4

\* C15 (validate): the call returns valid:true exactly when the payload passes
\* all five checks, otherwise valid:false with the error of the lowest-numbered
\* failing check.
ValidateIffAllChecks ==
  result # NoResult =>
    IF FirstFailing(payload) = 0 THEN result.valid
    ELSE ~result.valid /\ CheckOfError(result.error) = FirstFailing(payload)

\* C16 (validation of type): a payload that passes the objectId check and
\* carries a type field whose value is not resize, rotate or update is
\* rejected with the 'Invalid type' error, whatever the value.
InvalidTypeRejected ==
  (/\ result # NoResult
   /\ Check1(payload)
   /\ payload.type.t # "undefined"
   /\ ~(payload.type.t = "string" /\ payload.type.s \in validTypes))
  => (~result.valid /\ result.error = "Invalid type")

\* The members of the room of the last handler whose socket is open.
OpenMembers == {c \in clients[ev.h] : sockOpen[c]}

\* The connections the last handler sent a frame of the given kind to.
SentTo(kind) == {f.to : f \in {g \in ev.sent : g.kind = kind}}

\* C11 (broadcast delivery set): the update broadcast caused by a frame of
\* connection c reaches exactly the members of the room whose socket is open
\* other than c; with no other member nothing is sent.
BroadcastDeliverySet ==
  (ev.kind = "sync" /\ ev.touched) =>
    SentTo("update") = OpenMembers \ {ev.conn}

\* C12 (PropertyUpdate rejection): a type-3 frame whose payload fails
\* validation leaves the document, the awareness table, the membership and
\* the save timer as they were, and nothing is sent.
PropertyUpdateRejected ==
  [][(/\ ev'.kind = "frame" /\ ev'.note.type = 3
      /\ ~validatePropertyUpdate(ev'.note.body.payload).valid)
     => (/\ doc' = doc /\ awStates' = awStates /\ awMeta' = awMeta
         /\ clients' = clients /\ saveTimer' = saveTimer /\ timers' = timers
         /\ lastTouch' = lastTouch
         /\ ev'.sent = {})]_vars

\* C12 witness: a type-3 frame with a payload that fails validation was
\* handled in a loaded room with another open member, its bytes not yet in
\* the document.
PropertyUpdateRejectedWitness ==
  /\ ev.kind = "frame" /\ ev.note.type = 3
  /\ ~validatePropertyUpdate(ev.note.body.payload).valid
  /\ listening[ev.h] /\ OpenMembers \ {ev.conn} # {}
  /\ ev.note.body.upd \notin doc[ev.h]

\* C13 (PropertyUpdate acceptance): a type-3 frame whose payload passes
\* validation, handled in a loaded room, is applied to the document, arms the
\* save timer and is broadcast to the other open members.
PropertyUpdateAccepted ==
  [][(/\ ev'.kind = "frame" /\ ev'.note.type = 3
      /\ validatePropertyUpdate(ev'.note.body.payload).valid
      /\ listening[ev'.h] /\ ev'.note.body.upd \notin doc[ev'.h])
     => (/\ ev'.note.body.upd \in doc'[ev'.h]
         /\ saveTimer'[ev'.h] = now + DebounceMs
         /\ {c \in clients[ev'.h] : sockOpen[c] /\ c # ev'.conn}
              \subseteq {f.to : f \in ev'.sent})]_vars

\* C14 (ephemeral relay): a type-2 frame from connection c is relayed to the
\* other open members of c's room.
EphemeralRelayed ==
  (ev.kind = "frame" /\ ev.note.type = 2) =>
    {f.to : f \in {g \in ev.sent : g.type = 2}} = OpenMembers \ {ev.conn}

\* C17 (malformed frame): a frame that fails to decode leaves the connection
\* open and a member of its room, leaves the document and the awareness table
\* as they were, and nothing is sent.
MalformedFrameDropped ==
  [][ev'.kind = "malformed"
     => (/\ sockOpen'[ev'.conn] /\ connPc'[ev'.conn] = "joined"
         /\ ev'.conn \in clients'[ev'.h]
         /\ doc' = doc /\ awStates' = awStates /\ awMeta' = awMeta
         /\ ev'.sent = {})]_vars

\* The type tags the protocol defines.
DefinedTypes == 0..3

\* C18 (unknown frame type): a frame whose type tag is not a defined one
\* changes neither document, awareness, membership nor save timer, nothing is
\* sent, and the connection stays open and joined, so that its next frame is
\* handled.
UnknownFrameDropped ==
  [][(ev'.kind = "frame" /\ ev'.note.type \notin DefinedTypes)
     => (/\ doc' = doc /\ awStates' = awStates /\ awMeta' = awMeta
         /\ clients' = clients /\ saveTimer' = saveTimer /\ timers' = timers
         /\ ev'.sent = {}
         /\ sockOpen'[ev'.conn] /\ connPc'[ev'.conn] = "joined"
         /\ ev'.conn \in clients'[ev'.h])]_vars

\* C18 witness: a frame of an undefined type was handled in a loaded room with
\* another open member, its bytes not in the document, and the connection can
\* send a further frame.
UnknownFrameWitness ==
  /\ ev.kind = "frame" /\ ev.note.type \notin DefinedTypes
  /\ listening[ev.h] /\ OpenMembers \ {ev.conn} # {}
  /\ ev.note.body.upd \notin doc[ev.h]
  /\ nframes < MaxFrames /\ connPc[ev.conn] = "joined" /\ sockOpen[ev.conn]

\* C19 (sync reply routing): the reply to a Sync frame of connection c goes
\* to c and to nobody else; a Sync frame that produces no reply has nothing
\* sent back to c.
SyncReplyRouting ==
  /\ ev.kind = "step1" => (SentTo("step2") = {ev.conn} /\ {f.to : f \in ev.sent} = {ev.conn})
  /\ ev.kind = "sync" => (SentTo("step2") = {} /\ ev.conn \notin {f.to : f \in ev.sent})

JoinKinds == {"join", "loaded", "loadfail"}

\* C20 (join handshake ordering): a join sends the new connection first a
\* Sync frame with the state-summary request for the room's document, then an
\* Awareness frame with every entry of the table exactly when the table is
\* not empty, and nothing else; a handler other than a join sends frames only
\* to connections that have joined.
JoinHandshake ==
  /\ (ev.kind \in JoinKinds /\ sockOpen[ev.conn]) =>
       LET h == ev.h
           present == {k \in AwAll : awStates[h][k] # NotPresent}
       IN /\ \A f \in ev.sent : f.to = ev.conn /\ f.ord \in {1, 2}
          /\ \E f \in ev.sent :
               f.ord = 1 /\ f.type = 0 /\ f.kind = "step1" /\ f.upd = doc[h]
          /\ \A f \in ev.sent : f.ord = 1 => (f.type = 0 /\ f.kind = "step1")
          /\ (\E f \in ev.sent : f.ord = 2) <=> present # {}
          /\ \A f \in ev.sent :
               f.ord = 2 => /\ f.type = 1
                            /\ f.aw = EncodeAwareness(awStates[h], awMeta[h], present)
  /\ ev.kind \notin JoinKinds =>
       \A f \in ev.sent : connPc[f.to] = "joined"

\* C20 witness: a connection joined a room whose awareness table holds the
\* entry of another client and was sent both frames.
JoinHandshakeWitness ==
  /\ ev.kind = "join" /\ sockOpen[ev.conn]
  /\ \E k \in AwIds : awStates[ev.h][k] # NotPresent
  /\ Cardinality(ev.sent) = 2

\* The header is 'Bearer ' followed by a token that verifies against
\* JWT_SECRET and has not expired.
Verifies(header) ==
  /\ header.scheme = "Bearer"
  /\ header.token.wellFormed
  /\ header.token.secret = JwtSecret
  /\ ~header.token.expired

\* C21: on GET /me, next() is called (exactly once, with req.userId taken
\* from the token) only when the Authorization header is 'Bearer ' plus a
\* token that verifies against JWT_SECRET and has not expired; for a missing
\* or non-Bearer header and for an expired, malformed or wrongly signed
\* token the answer is 401 and next() is not called; never both; so getMe
\* runs only after a successful verification.
ProtectContract ==
  meRes # NoResponse =>
    /\ meRes.next \in {0, 1}
    /\ meRes.next = 1 <=> Verifies(meReq)
    /\ meRes.next = 1 => meRes.userId = meReq.token.userId
    /\ ~Verifies(meReq) => meRes.denied /\ meRes.status = 401
    /\ ~(meRes.denied /\ meRes.next > 0)
    /\ meRes.getMe => Verifies(meReq) /\ meRes.next = 1

\* C21 witness: a request with the token a login issued passed protect and
\* getMe answered with the user.
ProtectContractWitness ==
  /\ \E l \in Logins : logins[l].status = 200 /\ meReq = Header("Bearer", logins[l].token)
  /\ meRes.next = 1
  /\ meRes.getMe
  /\ meRes.status = 200

MutationArmsTimer ==
  [][\A h \in Handles :
       doc'[h] # doc[h] =>
         /\ saveTimer'[h] = now + DebounceMs
         /\ (now + DebounceMs) \in timers'[h]]_vars

\* C24: the load is never broadcast: the handler that applies the stored
\* record sends nothing but the handshake of the joining connection, and a
\* type-0 update frame is sent only for a mutation whose origin is a
\* connection (not null).
LoadNotBroadcast ==
  /\ ev.kind \in {"loaded", "loadfail"} =>
       \A f \in ev.sent : f.to = ev.conn /\ f.kind \in {"step1", "awareness"}
  /\ \A f \in ev.sent :
       (f.type = 0 /\ f.kind = "update") =>
         /\ ev.kind = "sync"
         /\ f.origin # NoConn
         /\ f.origin = ev.conn

\* C24 witness: the stored record was applied to the document of a room
\* that already had another open member.
LoadNotBroadcastWitness ==
  /\ ev.kind = "loaded" /\ ev.note.found = "doc"
  /\ doc[ev.h] # {}
  /\ \E d \in clients[ev.h] : d # ev.conn /\ sockOpen[d]

\* room.clients of the room in the table.
Members(r) == IF rooms[r] = NoHandle THEN {} ELSE clients[rooms[r]]

\* C25 (membership): in every reachable state the member set of a room is
\* exactly the connections that joined it and have not closed, and no
\* connection is a member of more than one room.
MembershipInvariant ==
  /\ \A r \in Rooms :
       Members(r) = {c \in Conns : connRoom[c] = r /\ connPc[c] = "joined" /\ sockOpen[c]}
  /\ \A r, q \in Rooms : r # q => Members(r) \cap Members(q) = {}

\* C26 (write failure): a rejected write changes nothing but the set of
\* writes in flight: connections, rooms and documents stay as they are, no
\* timer is armed and no write is issued for it; the next saveToDB call of
\* the room arms the timer again, and the write issued when it fires carries
\* the document's full state of that moment.
WriteFailureContained ==
  [][/\ ev'.kind = "savefail" =>
          /\ <<connVars, rooms, doc, clients, listening>>' =
               <<connVars, rooms, doc, clients, listening>>
          /\ timers' = timers /\ saveTimer' = saveTimer
          /\ writes' \subseteq writes
     /\ (ev'.kind = "sync" /\ ev'.touched /\ failed[ev'.room]) =>
          (now + DebounceMs) \in timers'[ev'.h]
     /\ (ev'.kind = "fire" /\ failed[ev'.room]) =>
          \E w \in writes' \ writes : w.h = ev'.h /\ w.data = doc[ev'.h]]_vars

\* C26 witness: after a rejected write of one update a second update armed
\* the timer again, and the write issued at its fire carries both.
WriteFailureWitness ==
  /\ ev.kind = "fire" /\ failed[ev.room]
  /\ nwrites[ev.h] = 2
  /\ Cardinality(doc[ev.h]) = 2
  /\ \E w \in writes : w.h = ev.h /\ w.data = doc[ev.h]
  /\ store[ev.room] = Absent

\* C27 (snapshot at fire time): the write issued when the timer fires
\* carries the full state the document has at that instant, and when the
\* store acknowledges it the room's record is that state, whether or not the
\* room had a record before.
SnapshotAtFire ==
  [][/\ ev'.kind = "fire" =>
          \E w \in writes' \ writes :
            /\ w.room = ev'.room
            /\ w.data = doc'[ev'.h]
            /\ writes' = writes \cup {w}
     /\ ev'.kind = "saved" =>
          \E w \in writes \ writes' :
            /\ w.room = ev'.room
            /\ store' = [store EXCEPT ![w.room] = Encoded(w.data)]]_vars

\* C27 witness: the one write of a room was acknowledged and the record now
\* holds both updates of the document, the one applied before the last
\* saveToDB call included.
SnapshotAtFireWitness ==
  /\ ev.kind = "saved"
  /\ Cardinality(doc[ev.h]) = 2
  /\ store[ev.room] = Encoded(doc[ev.h])
  /\ nwrites[ev.h] = 1 /\ bursts[ev.h] = 1
  /\ lastTouch[ev.h] = lastMut[ev.h]
  /\ finds[ev.room] = 1

\* C28 (no maximum wait): while the saveToDB calls of a room come less than
\* DebounceMs apart and the last one is less than DebounceMs old, no write
\* of that room has been issued since the run began, however long ago that
\* was; a write is issued only DebounceMs or more after the last call.
NoMaximumWait ==
  \A h \in Handles :
    /\ (bursts[h] = 1 /\ ties[h] = 0 /\ now < lastTouch[h] + DebounceMs) =>
         nwrites[h] = 0 /\ InFlight(h) = {}
    /\ (ev.kind = "fire" /\ ev.h = h) =>
         /\ lastTouch[h] # NoTimer
         /\ now - lastTouch[h] >= DebounceMs

\* C28 witness: DebounceMs after the first update of a room nothing has been
\* written, because a second update came in between; the timer is pending.
NoMaximumWaitWitness ==
  \E h \in Handles :
    /\ runStart[h] = 0 /\ lastTouch[h] = TickMs
    /\ now = runStart[h] + DebounceMs
    /\ Cardinality(doc[h]) = 2
    /\ nwrites[h] = 0
    /\ timers[h] = {lastTouch[h] + DebounceMs}

\* C29 (persistence decoupled): while a durable write is in flight, every
\* joined open connection of any room can have its next Sync update,
\* SyncStep1 or Awareness frame handled, and every new connection can be
\* taken in: no handler waits for the write.
PersistenceDecoupled ==
  writes # {} =>
    \A c \in Conns :
      /\ (connPc[c] = "joined" /\ sockOpen[c] /\ nframes < MaxFrames) =>
           /\ \A u \in Updates : ENABLED SyncUpdateFrame(c, u)
           /\ ENABLED SyncStep1Frame(c)
           /\ \A k \in AwIds, st \in AwValues : ENABLED AwarenessFrame(c, k, MaxClock, st)
      /\ connPc[c] = "new" => \A r \in Rooms : ENABLED Connect(c, r)

\* C29 witness: with the write of a room in flight, a Sync update of that
\* room was applied, armed the timer and was broadcast.
PersistenceDecoupledWitness ==
  /\ ev.kind = "sync" /\ ev.touched /\ ev.sent # {}
  /\ lastMut[ev.h] = now
  /\ \E w \in InFlight(ev.h) : w.data # doc[ev.h]

\* C30 (non-document frames): handling an Awareness frame (type 1, whole or
\* cut short), an Ephemeral frame (type 2) or a close leaves every document
\* as it was, arms and resets no save timer, issues no write and leaves the
\* durable records alone.
NonDocumentFrames ==
  [][(\/ ev'.kind \in {"awareness", "awareness-noop", "close"}
      \/ ev'.kind = "frame" /\ ev'.note.type = 2
      \/ ev'.kind = "malformed" /\ ev'.note.at \in {"awareness", "awareness-entry"})
     => /\ doc' = doc
        /\ saveTimer' = saveTimer /\ timers' = timers /\ lastTouch' = lastTouch
        /\ writes' = writes /\ nwrites' = nwrites
        /\ store' = store]_vars

\* C30 witness: an Awareness frame changed the awareness table of a room
\* whose save timer is pending, and the timer is still due DebounceMs after
\* the last document update.
NonDocumentFramesWitness ==
  /\ ev.kind = "awareness" /\ ev.sent # {}
  /\ doc[ev.h] # {}
  /\ now > lastTouch[ev.h]
  /\ timers[ev.h] = {lastTouch[ev.h] + DebounceMs}

\* C31 (awareness clock): the clock a room's awareness table holds for a
\* client never decreases, whatever frames arrive (in order, twice, out of
\* order, cut short) and whatever connections close.
AwarenessClockMonotonic ==
  [][\A h \in Handles, k \in AwAll :
       /\ awMeta'[h][k] >= awMeta[h][k]
       /\ awMeta[h][k] # NoMeta => awMeta'[h][k] # NoMeta]_vars

\* C31 witness: an entry with a clock below the stored one was delivered after
\* the newer entry, and the table still holds the newer clock.
AwarenessClockWitness ==
  /\ ev.kind = "awareness-noop"
  /\ ev.note.prev # NoMeta
  /\ ev.note.clock < ev.note.prev
  /\ awMeta[ev.h][ev.note.k] = ev.note.prev

\* The clients whose entry (state or clock) a step changed in the table of h.
ChangedEntries(h) ==
  {k \in AwAll : awStates'[h][k] # awStates[h][k] \/ awMeta'[h][k] # awMeta[h][k]}

\* C32 (changed subset): every awareness frame broadcast after an awareness
\* update carries exactly the entries of the clients that update added,
\* updated or removed, with their new clock and state, and no entry of any
\* other client.
ChangedSubsetBroadcast ==
  [][ev'.kind \in {"awareness", "awareness-noop", "malformed"} =>
       \A f \in ev'.sent :
         /\ f.type = 1
         /\ {e.k : e \in f.aw} = ChangedEntries(ev'.h)
         /\ f.aw = EncodeAwareness(awStates'[ev'.h], awMeta'[ev'.h],
                                   ChangedEntries(ev'.h))]_vars

\* C32 witness: an awareness update was broadcast to an open member while the
\* table holds an entry of another client, which the frame does not carry.
ChangedSubsetWitness ==
  /\ ev.kind = "awareness"
  /\ \E f \in ev.sent :
       /\ sockOpen[f.to]
       /\ \E k \in AwAll :
            /\ awStates[ev.h][k] # NotPresent
            /\ k \notin {e.k : e \in f.aw}

\* C33 (no eviction): a room that is in the table stays there with the same
\* document handle, also when its last member leaves; a later connection to
\* it is bound to that handle and no further load is issued for it.
NoEviction ==
  [][\A r \in Rooms :
       rooms[r] # NoHandle =>
         /\ rooms'[r] = rooms[r]
         /\ finds'[r] = finds[r]
         /\ (ev'.kind \in JoinKinds /\ ev'.room = r) =>
              connDoc'[ev'.conn] = rooms[r]]_vars

\* C33 witness: a connection joined a room whose creator had closed and whose
\* member set was empty; it is bound to the creator's document.
NoEvictionWitness ==
  /\ ev.kind = "join"
  /\ ev.h # ev.conn
  /\ connPc[ev.h] = "closed"
  /\ clients[ev.h] = {ev.conn}
  /\ connDoc[ev.conn] = ev.h
  /\ finds[ev.room] = 1

\* A step in which something failed: the store rejected a load or a write, a
\* stored record could not be applied, or a frame could not be decoded.
FailureStep ==
  \/ ev'.kind \in {"loadfail", "savefail", "malformed"}
  \/ ev'.kind = "loaded" /\ ev'.note.found = "corrupt"

\* C34 as claimed: no failure ends the process, an unreachable store at
\* startup included.
NoFailureExits == proc # "exited"

\* C34 as amended: once the server listens no failure ends the process: an
\* unreachable store at load or at write time, a stored record that cannot be
\* applied and a frame that cannot be decoded leave the process running, and
\* leave every other room's document, members, awareness table and timers and
\* every socket as they were.
NoFailureExitsOnceListening ==
  [][proc = "listening" =>
       /\ proc' = "listening"
       /\ FailureStep =>
            /\ sockOpen' = sockOpen
            /\ \A h \in Handles :
                 h # ev'.h =>
                   /\ doc'[h] = doc[h] /\ clients'[h] = clients[h]
                   /\ awStates'[h] = awStates[h] /\ awMeta'[h] = awMeta[h]
                   /\ timers'[h] = timers[h]]_vars

\* C34 witness: with the server listening, a frame that cannot be decoded
\* was dropped in a room whose load the store had rejected, while another
\* room is in the table.
NoFailureExitsWitness ==
  /\ proc = "listening"
  /\ ev.kind = "malformed"
  /\ failed[ev.room]
  /\ \E r \in Rooms : r # ev.room /\ rooms[r] # NoHandle

\* C35 (session readiness): a connection is joined to, and sent its SyncStep1
\* from, a room whose load has completed: the document it is served holds
\* the state the store holds for the room.
SessionReadiness ==
  ev.kind \in JoinKinds =>
    /\ listening[ev.h]
    /\ \A f \in ev.sent :
         (f.kind = "step1" /\ store[ev.room].kind = "doc") =>
           store[ev.room].data \subseteq f.upd

\* C36: the mutation listener precedes every client mutation: a Sync update
\* frame is applied only to a document whose doc.on('update') subscription
\* is registered, so an update that changed the document called saveToDB and
\* an armed save timer exists for the room.
ListenerPrecedesMutation ==
  ev.kind = "sync" =>
    /\ listening[ev.h]
    /\ (lastMut[ev.h] = now => saveTimer[ev.h] = now + DebounceMs)

\* C37: no inbound frame is lost at join: every frame that arrives on an
\* accepted connection, at any time after the connection is accepted, finds
\* the connection's message handler registered and is handled by the
\* dispatcher.
FrameArrivals == {"sync", "step1", "awareness", "frame", "malformed", "unheard"}

NoFrameLostAtJoin ==
  ev.kind \in FrameArrivals =>
    /\ connPc[ev.conn] = "joined"
    /\ ev.kind # "unheard"

\* C38: the durable record never regresses: the writes of one room take
\* effect in the order their snapshots were taken, so an acknowledged write
\* never replaces the record by an older snapshot, one that lacks updates the
\* record already holds.
DurableRecordNeverRegresses ==
  [][\A r \in Rooms :
       (store[r].kind = "doc" /\ store'[r].kind = "doc") =>
         store[r].data \subseteq store'[r].data]_vars

====
